---- MODULE Spec2Model ----
(***************************************************************************)
(* Succession Signal: the signal extractor (scrape_website_data) and the   *)
(* succession scorer (calculate_succession_score) of succession_signal.py. *)
(*                                                                         *)
(* Representation.                                                         *)
(*  - A Python str is a sequence of one-character strings, so that         *)
(*    lower(), "in", startswith() and split() are computed, not assumed.   *)
(*  - A Python dict is a function whose DOMAIN is the set of keys present; *)
(*    an absent key is a key outside the DOMAIN.                           *)
(*  - An optional value (None or a value) is <<>> or <<v>>.                *)
(*  - The returned score, round(normalized_score, 1), is a decimal with    *)
(*    one fractional digit and is held as an integer number of tenths      *)
(*    (91.3 is 913).  normalized_score itself is the rational              *)
(*    raw/115*100, held by its numerator over 115.                         *)
(***************************************************************************)
EXTENDS Integers, Sequences, FiniteSets, TLC

VARIABLES
    business_data,  \* the dict handed to calculate_succession_score
    current_year,   \* datetime.now().year, read at line 134
    calls,          \* the calls made on business_data so far: <<[now, ret]>>
    url,            \* the argument of the last scrape_website_data call
    requested,      \* the url that call handed to requests.get (None if none)
    page,           \* what the network and the parser did during that call
    scraped,        \* what that call returned or raised (None before any call)
    openai_api_key, \* self.openai_api_key: None or the key set from the sidebar
    pc,             \* where main() is in its loop over the businesses
    succession_data,      \* the dict line 364 got for the business in hand
    ai_summary,           \* what the last generate_ai_summary call returned or raised
    service_calls,        \* requests made to openai.chat.completions.create
    service_prompt,       \* the prompt of the last of those requests
    processed_businesses  \* the list of lines 344 and 373-380

\* The state of main()'s pipeline.
pipeline ==
    <<openai_api_key, pc, succession_data, ai_summary, service_calls,
      service_prompt, processed_businesses>>

vars ==
    <<business_data, current_year, calls, url, requested, page, scraped, pipeline>>

(***************************************************************************)
(* Bounds of the model.                                                    *)
(***************************************************************************)
FirstYear == 2024   \* the clock reading of the initial state
MaxYear == 2025     \* the clock is not advanced beyond this year
MaxCalls == 2       \* calls recorded per business record
MaxProcessed == 2   \* businesses main() appends to processed_businesses

(***************************************************************************)
(* Python str and dict primitives.                                         *)
(***************************************************************************)
None == <<>>
Some(v) == <<v>>

UpperCase == <<"A","B","C","D","E","F","G","H","I","J","K","L","M","N","O","P","Q","R","S","T","U","V","W","X","Y","Z">>
LowerCase == <<"a","b","c","d","e","f","g","h","i","j","k","l","m","n","o","p","q","r","s","t","u","v","w","x","y","z">>

\* str.lower() on one character
LowerChar(c) ==
    IF \E i \in 1..Len(UpperCase) : UpperCase[i] = c
    THEN LowerCase[CHOOSE i \in 1..Len(UpperCase) : UpperCase[i] = c]
    ELSE c

\* str.lower()
Lower(s) == [i \in 1..Len(s) |-> LowerChar(s[i])]

\* sub in s
Contains(sub, s) ==
    \E p \in 0..(Len(s) - Len(sub)) :
        \A i \in 1..Len(sub) : s[p + i] = sub[i]

\* s.startswith(prefix)
StartsWith(s, prefix) ==
    /\ Len(prefix) <= Len(s)
    /\ \A i \in 1..Len(prefix) : s[i] = prefix[i]

\* d.get(k, default)
Get(d, k, default) == IF k \in DOMAIN d THEN d[k] ELSE default

\* the truth value of d.get(k) for a bool-valued key (an absent key gives None)
Truth(d, k) == k \in DOMAIN d /\ d[k] = TRUE

\* The value pandas gives an empty CSV cell (float nan): it has no lower().
NaN == <<"float('nan')">>

EmptyDict == <<>>

(***************************************************************************)
(* Strings of the program and of the inputs.                               *)
(***************************************************************************)
high_succession_industries ==
    << <<"c","o","n","s","t","r","u","c","t","i","o","n">>,
       <<"m","a","n","u","f","a","c","t","u","r","i","n","g">>,
       <<"a","u","t","o","m","o","t","i","v","e">>,
       <<"p","l","u","m","b","i","n","g">>,
       <<"e","l","e","c","t","r","i","c","a","l">>,
       <<"h","v","a","c">>,
       <<"r","o","o","f","i","n","g">>,
       <<"l","a","n","d","s","c","a","p","i","n","g">>,
       <<"t","r","u","c","k","i","n","g">> >>

target_states ==
    << <<"v","a">>,
       <<"v","i","r","g","i","n","i","a">>,
       <<"c","o">>,
       <<"c","o","l","o","r","a","d","o">>,
       <<"t","n">>,
       <<"t","e","n","n","e","s","s","e","e">> >>

HVAC_Contracting == <<"H","V","A","C"," ","C","o","n","t","r","a","c","t","i","n","g">>
HVAC_and_Plumbing == <<"H","V","A","C"," ","a","n","d"," ","P","l","u","m","b","i","n","g">>
Retail == <<"R","e","t","a","i","l">>

Charlottesville_VA == <<"C","h","a","r","l","o","t","t","e","s","v","i","l","l","e",","," ","V","A">>
Miami_FL == <<"M","i","a","m","i",","," ","F","L">>
Savannah_GA == <<"S","a","v","a","n","n","a","h",","," ","G","A">>
Memphis_Tennessee == <<"M","e","m","p","h","i","s",","," ","T","e","n","n","e","s","s","e","e">>

(***************************************************************************)
(* Factor strings.  An f-string is held as its template and the values     *)
(* substituted into it: num for an integer, str for a string.              *)
(***************************************************************************)
Factor(template, num, str) == [template |-> template, num |-> num, str |-> str]

F_Established == "Established business ({age} years)"
F_Mature == "Mature business ({age} years)"
F_Inaccessible == "Website inaccessible/outdated"
F_Copyright == "Copyright last updated {latest_copyright}"
F_NoBlog == "No blog/news section"
F_NoCareers == "No careers/hiring page"
F_Industry == "High-succession industry ({industry})"
F_Revenue == "Target revenue range ($2M-$10M)"
F_Region == "Target geographic region"

\* What one block of rules adds to score and appends to factors.
Adds(points, factors) == [points |-> points, factors |-> factors]
Nothing == Adds(0, <<>>)

(***************************************************************************)
(* calculate_succession_score: the rules, in evaluation order.             *)
(***************************************************************************)

\* A slip of the age rule: founded_year read with a default of 0 and no
\* presence test, so an absent year counts as the year 0.
age_rule_DefaultZero(bd, now) ==
    LET age == now - Get(bd, "founded_year", 0)
    IN  IF age >= 20 THEN Adds(25, <<Factor(F_Established, age, <<>>)>>)
        ELSE IF age >= 10 THEN Adds(15, <<Factor(F_Mature, age, <<>>)>>)
        ELSE Nothing

\* A slip of the age rule: the two tiers tested in the wrong order.
age_rule_TiersSwapped(bd, now) ==
    IF "founded_year" \in DOMAIN bd /\ bd["founded_year"] # 0
    THEN LET age == now - bd["founded_year"]
         IN  IF age >= 10 THEN Adds(15, <<Factor(F_Mature, age, <<>>)>>)
             ELSE IF age >= 20 THEN Adds(25, <<Factor(F_Established, age, <<>>)>>)
             ELSE Nothing
    ELSE Nothing

\* lines 136-144.  business_data.get('founded_year') is falsy when the key
\* is absent and when the year is 0.
age_rule(bd, now) ==
    IF "founded_year" \in DOMAIN bd /\ bd["founded_year"] # 0
    THEN LET age == now - bd["founded_year"]
         IN  IF age >= 20 THEN Adds(25, <<Factor(F_Established, age, <<>>)>>)
             ELSE IF age >= 10 THEN Adds(15, <<Factor(F_Mature, age, <<>>)>>)
             ELSE Nothing
    ELSE Nothing

\* lines 153-157: latest_copyright is None, or absent, or a year.
copyright_rule(website_data, now) ==
    LET latest_copyright == Get(website_data, "latest_copyright", None)
    IN  IF /\ latest_copyright # None
           /\ latest_copyright[1] # 0
           /\ now - latest_copyright[1] >= 3
        THEN Adds(15, <<Factor(F_Copyright, latest_copyright[1], <<>>)>>)
        ELSE Nothing

\* lines 159-162
blog_rule(website_data) ==
    IF ~Truth(website_data, "has_blog")
    THEN Adds(10, <<Factor(F_NoBlog, 0, <<>>)>>)
    ELSE Nothing

\* lines 164-167
careers_rule(website_data) ==
    IF ~Truth(website_data, "has_careers")
    THEN Adds(10, <<Factor(F_NoCareers, 0, <<>>)>>)
    ELSE Nothing

\* A slip of the website rules: the blog and careers tests placed after the
\* if/else instead of inside the else branch.
website_rule_NoElse(bd, now) ==
    LET website_data == Get(bd, "website_data", EmptyDict)
        first == IF ~Truth(website_data, "accessible")
                 THEN Adds(20, <<Factor(F_Inaccessible, 0, <<>>)>>)
                 ELSE copyright_rule(website_data, now)
        b == blog_rule(website_data)
        c == careers_rule(website_data)
    IN  Adds(first.points + b.points + c.points,
             first.factors \o b.factors \o c.factors)

\* lines 146-167
website_rule(bd, now) ==
    LET website_data == Get(bd, "website_data", EmptyDict)
    IN  IF ~Truth(website_data, "accessible")
        THEN Adds(20, <<Factor(F_Inaccessible, 0, <<>>)>>)
        ELSE LET a == copyright_rule(website_data, now)
                 b == blog_rule(website_data)
                 c == careers_rule(website_data)
             IN  Adds(a.points + b.points + c.points,
                      a.factors \o b.factors \o c.factors)

\* A slip of the industry loop: the break left out.
RECURSIVE industry_loop_NoBreak(_, _)
industry_loop_NoBreak(industry, i) ==
    IF i > Len(high_succession_industries) THEN Nothing
    ELSE LET rest == industry_loop_NoBreak(industry, i + 1)
         IN  IF Contains(high_succession_industries[i], industry)
             THEN Adds(15 + rest.points,
                       <<Factor(F_Industry, 0, industry)>> \o rest.factors)
             ELSE rest

\* lines 176-180: the for loop from keyword i on, with its break.
RECURSIVE industry_loop(_, _)
industry_loop(industry, i) ==
    IF i > Len(high_succession_industries) THEN Nothing
    ELSE IF Contains(high_succession_industries[i], industry)
         THEN Adds(15, <<Factor(F_Industry, 0, industry)>>)
         ELSE industry_loop(industry, i + 1)

\* lines 169-180, for an industry that is a str
industry_rule(bd) ==
    industry_loop(Lower(Get(bd, "industry", <<>>)), 1)

\* A slip of the revenue rule: the points added and the factor forgotten.
revenue_rule_NoFactor(bd) ==
    LET revenue == Get(bd, "estimated_revenue", 0)
    IN  IF 2000000 <= revenue /\ revenue <= 10000000
        THEN Adds(20, <<>>)
        ELSE Nothing

\* lines 182-186
revenue_rule(bd) ==
    LET revenue == Get(bd, "estimated_revenue", 0)
    IN  IF 2000000 <= revenue /\ revenue <= 10000000
        THEN Adds(20, <<Factor(F_Revenue, 0, <<>>)>>)
        ELSE Nothing

\* lines 188-192, for a location that is a str
location_rule(bd) ==
    LET location == Lower(Get(bd, "location", <<>>))
    IN  IF \E i \in 1..Len(target_states) : Contains(target_states[i], location)
        THEN Adds(10, <<Factor(F_Region, 0, <<>>)>>)
        ELSE Nothing

(***************************************************************************)
(* Normalisation and categories.                                           *)
(***************************************************************************)
max_possible_score == 115

Min(a, b) == IF a <= b THEN a ELSE b

\* A slip of the normalisation: the cap left out and the accumulator taken
\* as a percentage already.
normalized_score_Raw(score) == score * max_possible_score

\* line 196: min(100, (score / max_possible_score) * 100), as the numerator
\* of a fraction over max_possible_score.
normalized_score(score) == Min(100 * max_possible_score, score * 100)

\* line 210: round(x, 1) of x = num/den >= 0, in tenths.  Python rounds a
\* tie to the even digit.
Round1(num, den) ==
    LET q == (num * 10) \div den
        r == (num * 10) % den
    IN  IF 2 * r > den THEN q + 1
        ELSE IF 2 * r < den THEN q
        ELSE IF q % 2 = 0 THEN q ELSE q + 1

\* The glyphs of lines 201, 204 and 207, by their names.
RED_CIRCLE == "U+1F534 red circle"
YELLOW_CIRCLE == "U+1F7E1 yellow circle"
GREEN_CIRCLE == "U+1F7E2 green circle"

\* A slip of the categories: the thresholds applied to the accumulator.
categorize_RawScore(score) ==
    IF score >= 70 THEN [category |-> "High", priority |-> RED_CIRCLE]
    ELSE IF score >= 40 THEN [category |-> "Medium", priority |-> YELLOW_CIRCLE]
    ELSE [category |-> "Low", priority |-> GREEN_CIRCLE]

\* lines 198-207, on normalized_score(score)
categorize(score) ==
    IF normalized_score(score) >= 70 * max_possible_score
    THEN [category |-> "High", priority |-> RED_CIRCLE]
    ELSE IF normalized_score(score) >= 40 * max_possible_score
    THEN [category |-> "Medium", priority |-> YELLOW_CIRCLE]
    ELSE [category |-> "Low", priority |-> GREEN_CIRCLE]

\* A value that is not a str has no lower(): lines 175 and 189 raise.
Raises(bd) ==
    \/ Get(bd, "industry", <<>>) = NaN
    \/ Get(bd, "location", <<>>) = NaN

\* lines 131-192: score and factors after the last rule
accumulate(bd, now) ==
    LET a == age_rule(bd, now)
        w == website_rule(bd, now)
        i == industry_rule(bd)
        r == revenue_rule(bd)
        l == location_rule(bd)
    IN  Adds(a.points + w.points + i.points + r.points + l.points,
             a.factors \o w.factors \o i.factors \o r.factors \o l.factors)

\* lines 194-215: the returned dict
score_result(score, factors) ==
    [score |-> Round1(normalized_score(score), max_possible_score),
     category |-> categorize(score).category,
     priority |-> categorize(score).priority,
     factors |-> factors,
     raw_score |-> score]

\* A slip of the scorer: score and factors kept on the object between calls
\* instead of being reset at lines 131-132.
calculate_succession_score_Stateful(bd, now) ==
    IF Raises(bd) THEN [raised |-> "AttributeError"]
    ELSE LET acc == accumulate(bd, now)
             before == IF calls # <<>> /\ "raw_score" \in DOMAIN calls[Len(calls)].ret
                       THEN Adds(calls[Len(calls)].ret.raw_score,
                                 calls[Len(calls)].ret.factors)
                       ELSE Nothing
         IN  score_result(before.points + acc.points, before.factors \o acc.factors)

\* lines 129-215: what a call made in the year now returns, or that it raises
calculate_succession_score(bd, now) ==
    IF Raises(bd) THEN [raised |-> "AttributeError"]
    ELSE LET acc == accumulate(bd, now)
         IN  score_result(acc.points, acc.factors)

(***************************************************************************)
(* scrape_website_data.  The page is what the regular expressions and the  *)
(* parser find in it: page.raises is the exception the try body meets (at  *)
(* requests.get or in BeautifulSoup), None when it meets none.             *)
(***************************************************************************)
CopyrightWindowMin == 1990
CopyrightWindowMax == 2024

HttpPrefix == <<"h","t","t","p",":","/","/">>
HttpsPrefix == <<"h","t","t","p","s",":","/","/">>

IsSpace(c) == c \in {" ", "\t", "\n"}

\* str.strip()
RECURSIVE Strip(_)
Strip(s) ==
    IF s = <<>> THEN s
    ELSE IF IsSpace(s[1]) THEN Strip(Tail(s))
    ELSE IF IsSpace(s[Len(s)]) THEN Strip(SubSeq(s, 1, Len(s) - 1))
    ELSE s

\* lines 59-60: the url handed to requests.get
normalized_url(u) ==
    IF StartsWith(u, HttpPrefix) \/ StartsWith(u, HttpsPrefix)
    THEN u
    ELSE HttpsPrefix \o u

\* max() of a non-empty list of years
RECURSIVE MaxOf(_)
MaxOf(years) ==
    IF Len(years) = 1 THEN years[1]
    ELSE LET m == MaxOf(Tail(years))
         IN  IF years[1] >= m THEN years[1] ELSE m

\* lines 74-80: both findall results, filtered by the window
copyright_years(pg) ==
    SelectSeq(pg.copyright_matches \o pg.glyph_matches,
              LAMBDA year : CopyrightWindowMin <= year /\ year <= CopyrightWindowMax)

DaysIn(m, y) ==
    IF m \in {4, 6, 9, 11} THEN 30
    ELSE IF m # 2 THEN 31
    ELSE IF y % 4 = 0 /\ (y % 100 # 0 \/ y % 400 = 0) THEN 29 ELSE 28

\* datetime.strptime(text, '%m/%d/%Y') succeeds
Parses(date) ==
    /\ date.m \in 1..12
    /\ date.y \in 1..9999
    /\ date.d \in 1..DaysIn(date.m, date.y)

\* lines 96-103: the loop over date_patterns from pattern i on
RECURSIVE last_updated_loop(_, _)
last_updated_loop(pg, i) ==
    IF i > Len(pg.date_matches) THEN None
    ELSE IF pg.date_matches[i] # <<>> /\ Parses(pg.date_matches[i][1])
         THEN Some(pg.date_matches[i][1])
         ELSE last_updated_loop(pg, i + 1)

\* The exception the try body of lines 58-114 meets, None when it runs to
\* its return: a url that is not a str has no startswith() (line 59).
try_raises(u, pg) ==
    IF u = NaN THEN Some("AttributeError") ELSE pg.raises

ExceptionClasses ==
    {"AttributeError", "requests.ConnectionError", "requests.Timeout",
     "bs4.ParserRejectedMarkup"}

\* A slip of the handler: only the errors of the request are caught.
Catches_RequestsOnly(class) ==
    class \in {"requests.ConnectionError", "requests.Timeout"}

\* line 116: except Exception
Catches(class) == class \in ExceptionClasses

\* str(e) of line 119
str_e(class) ==
    CASE class = "AttributeError" -> "'float' object has no attribute 'startswith'"
      [] class = "requests.ConnectionError" -> "Max retries exceeded with url: /"
      [] class = "requests.Timeout" -> "Read timed out. (read timeout=10)"
      [] OTHER -> "markup rejected by the parser"

\* lines 105-114
scrape_success(pg) ==
    [accessible |-> TRUE,
     title |-> IF pg.title # None THEN Strip(pg.title[1]) ELSE <<>>,
     copyright_years |-> copyright_years(pg),
     latest_copyright |-> IF copyright_years(pg) # <<>>
                          THEN Some(MaxOf(copyright_years(pg))) ELSE None,
     has_blog |-> pg.blog_link,
     has_careers |-> pg.careers_link,
     last_updated |-> last_updated_loop(pg, 1),
     text_length |-> pg.text_length]

\* lines 116-127
scrape_failure(class) ==
    [accessible |-> FALSE,
     error |-> str_e(class),
     title |-> <<>>,
     copyright_years |-> <<>>,
     latest_copyright |-> None,
     has_blog |-> FALSE,
     has_careers |-> FALSE,
     last_updated |-> None,
     text_length |-> 0]

\* lines 56-127: the dict returned, or the exception that leaves the call
scrape_website_data(u, pg) ==
    LET e == try_raises(u, pg)
    IN  IF e = None THEN scrape_success(pg)
        ELSE IF Catches(e[1]) THEN scrape_failure(e[1])
        ELSE [raised |-> e[1]]

(***************************************************************************)
(* Inputs.                                                                 *)
(***************************************************************************)
\* One key of a dict: absent when the option is None.
Field(k, option) == IF option = None THEN EmptyDict ELSE (k :> option[1])

Optional(S) == {None} \cup {Some(v) : v \in S}

FoundedYears == {1995, 2005, 2015}
Revenues == {3200000, 10000001}
Industries == {HVAC_Contracting, HVAC_and_Plumbing, Retail, NaN}
Locations == {Charlottesville_VA, Miami_FL, Savannah_GA, Memphis_Tennessee, NaN}
CopyrightYears == {2019, 2022}

WebsiteSignals ==
    [accessible : BOOLEAN,
     latest_copyright : Optional(CopyrightYears),
     has_blog : BOOLEAN,
     has_careers : BOOLEAN]

BusinessRecords ==
    { Field("founded_year", fy) @@ Field("estimated_revenue", rev)
        @@ Field("industry", ind) @@ Field("location", loc)
        @@ Field("website_data", wd) :
        fy \in Optional(FoundedYears), rev \in Optional(Revenues),
        ind \in Optional(Industries), loc \in Optional(Locations),
        wd \in Optional(WebsiteSignals) }

\* lines 355-360: the signals main() attaches; the copyright year is 2019
\* for a business whose name contains 'enviro' and 2021 for any other.
demo_website_data(year) ==
    [accessible |-> TRUE, latest_copyright |-> Some(year),
     has_blog |-> FALSE, has_careers |-> FALSE]

Blue_Ridge_HVAC_padded == <<" "," ","B","l","u","e"," ","R","i","d","g","e"," ","H","V","A","C"," ","\n">>
blueridgehvac_net == <<"b","l","u","e","r","i","d","g","e","h","v","a","c",".","n","e","t">>
http_tntrucking_com == <<"h","t","t","p",":","/","/","t","n","t","r","u","c","k","i","n","g",".","c","o","m">>

Urls == {blueridgehvac_net, http_tntrucking_com, NaN}

Date(m, d, y) == [m |-> m, d |-> d, y |-> y]

\* What the three date patterns of lines 90-94 find, in their order.
DateMatches ==
    { << <<>>, <<>>, <<>> >>,
      << <<>>, <<>>, <<Date(13, 45, 2020)>> >>,
      << <<Date(2, 30, 2021)>>, <<Date(2, 30, 2021)>>,
         <<Date(1, 15, 2020), Date(2, 30, 2021)>> >>,
      << <<Date(3, 15, 2021)>>, <<Date(3, 15, 2021)>>,
         <<Date(1, 15, 2020), Date(3, 15, 2021)>> >> }

FetchedPages ==
    [raises : {None},
     title : {None, Some(Blue_Ridge_HVAC_padded)},
     copyright_matches : {<<>>, <<2019>>, <<1899, 2021>>},
     glyph_matches : {<<>>, <<2099>>, <<2024, 1990>>},
     blog_link : BOOLEAN,
     careers_link : BOOLEAN,
     date_matches : DateMatches,
     text_length : {1200}]

FailedPages ==
    [raises : {Some("requests.ConnectionError"), Some("requests.Timeout"),
               Some("bs4.ParserRejectedMarkup")},
     title : {None},
     copyright_matches : {<<>>},
     glyph_matches : {<<>>},
     blog_link : {FALSE},
     careers_link : {FALSE},
     date_matches : {<< <<>>, <<>>, <<>> >>},
     text_length : {0}]

Pages == FetchedPages \cup FailedPages

(***************************************************************************)
(* The scorer as a state machine: a caller holds one business record and   *)
(* calls calculate_succession_score on it, now and again later.            *)
(***************************************************************************)
\* lines 48-49 and 344: no key, nothing processed
NoPipeline ==
    /\ openai_api_key = None
    /\ pc = "loop"
    /\ succession_data = None
    /\ ai_summary = None
    /\ service_calls = 0
    /\ service_prompt = None
    /\ processed_businesses = <<>>

NoScrape ==
    /\ url = None
    /\ requested = None
    /\ page = None
    /\ scraped = None

Init ==
    /\ business_data \in BusinessRecords
    /\ current_year = FirstYear
    /\ calls = <<>>
    /\ NoScrape
    /\ NoPipeline

\* line 364 and lines 129-215: one call, its return value recorded
CalculateSuccessionScore ==
    /\ Len(calls) < MaxCalls
    /\ calls' = Append(calls,
                       [now |-> current_year,
                        ret |-> calculate_succession_score(business_data, current_year)])
    /\ UNCHANGED <<business_data, current_year, url, requested, page, scraped, pipeline>>

\* lines 355-361: main() replaces the record's website_data by the demo signals
AttachWebsiteData ==
    \E year \in {2019, 2021} :
        /\ business_data' = ("website_data" :> demo_website_data(year)) @@ business_data
        /\ calls' = <<>>
        /\ UNCHANGED <<current_year, url, requested, page, scraped, pipeline>>

\* line 134: the year datetime.now() gives changes between calls
NewYear ==
    /\ current_year < MaxYear
    /\ current_year' = current_year + 1
    /\ UNCHANGED <<business_data, calls, url, requested, page, scraped, pipeline>>

Next ==
    \/ CalculateSuccessionScore
    \/ AttachWebsiteData
    \/ NewYear

Spec == Init /\ [][Next]_vars

(***************************************************************************)
(* The extractor as a state machine: a caller scrapes one url after        *)
(* another.                                                                *)
(***************************************************************************)
InitScrape ==
    /\ business_data = EmptyDict
    /\ current_year = FirstYear
    /\ calls = <<>>
    /\ NoScrape
    /\ NoPipeline

\* lines 56-127: one call
ScrapeWebsiteData ==
    \E u \in Urls, pg \in Pages :
        /\ url' = Some(u)
        /\ page' = Some(pg)
        /\ requested' = IF u = NaN THEN None ELSE Some(normalized_url(u))
        /\ scraped' = Some(scrape_website_data(u, pg))
        /\ UNCHANGED <<business_data, current_year, calls, pipeline>>

NextScrape == ScrapeWebsiteData

SpecScrape == InitScrape /\ [][NextScrape]_vars

\* The return value of the latest call on business_data.
Returned == calls # <<>> /\ "raw_score" \in DOMAIN calls[Len(calls)].ret
result == calls[Len(calls)].ret
website_data == Get(business_data, "website_data", EmptyDict)

\* line 348: business['location'].split(',')[-1].strip(), the region token
\* main() filters on
business_region(location) ==
    LET commas == {i \in 1..Len(location) : location[i] = ","}
        last == CHOOSE i \in commas : \A j \in commas : j <= i
    IN  IF commas = {} THEN Strip(location)
        ELSE Strip(SubSeq(location, last + 1, Len(location)))

(***************************************************************************)
(* The text summary, lines 217-248, and the loop of main() that calls it,  *)
(* lines 344-380.                                                          *)
(***************************************************************************)
Blue_Ridge_HVAC_Services == <<"B","l","u","e"," ","R","i","d","g","e"," ","H","V","A","C"," ","S","e","r","v","i","c","e","s">>
Memphis_Roofing == <<"M","e","m","p","h","i","s"," ","R","o","o","f","i","n","g">>
Richmond_Environmental_Solutions == <<"R","i","c","h","m","o","n","d"," ","E","n","v","i","r","o","n","m","e","n","t","a","l"," ","S","o","l","u","t","i","o","n","s">>
Roofing == <<"R","o","o","f","i","n","g">>
Environmental_Remediation == <<"E","n","v","i","r","o","n","m","e","n","t","a","l"," ","R","e","m","e","d","i","a","t","i","o","n">>
Richmond_Virginia == <<"R","i","c","h","m","o","n","d",","," ","V","i","r","g","i","n","i","a">>
Virginia == <<"V","i","r","g","i","n","i","a">>
Colorado == <<"C","o","l","o","r","a","d","o">>
Tennessee == <<"T","e","n","n","e","s","s","e","e">>
enviro == <<"e","n","v","i","r","o">>
Unknown == <<"U","n","k","n","o","w","n">>
sk_test == <<"s","k","-","t","e","s","t">>
Worth_a_respectful_call_padded == <<" "," ","W","o","r","t","h"," ","a"," ","r","e","s","p","e","c","t","f","u","l"," ","c","a","l","l","."," ">>

\* A summary string: the template of the text and the value put in it.
Summary(template, arg) == [template |-> template, arg |-> arg]

\* lines 223-237: the prompt, made of four fields of the business, the score
\* and the first three factors
prompt(bd, sd) ==
    [name |-> Get(bd, "name", Unknown),
     industry |-> Get(bd, "industry", Unknown),
     location |-> Get(bd, "location", Unknown),
     founded_year |-> Get(bd, "founded_year", Unknown),
     score |-> sd.score,
     factors |-> SubSeq(sd.factors, 1, Min(3, Len(sd.factors)))]

\* What openai.chat.completions.create does with a request: it raises, or
\* returns a response with its choices.
Response(raises, choices) == [raises |-> raises, choices |-> choices]
Choice(content) == [content |-> content]

OpenAIErrors ==
    {"openai.APIConnectionError", "openai.RateLimitError",
     "openai.AuthenticationError"}

Responses ==
    {Response(Some(e), <<>>) : e \in OpenAIErrors}
    \cup {Response(None, <<Choice(Some(Worth_a_respectful_call_padded))>>),
          Response(None, <<Choice(None)>>),
          Response(None, <<>>)}

\* The exception the try body of lines 222-245 meets, None when it runs to
\* its return: the request's own error, no choices[0] (line 245), or a
\* content of None, which has no strip() (line 245).
summary_raises(response) ==
    IF response.raises # None THEN response.raises
    ELSE IF response.choices = <<>> THEN Some("IndexError")
    ELSE IF response.choices[1].content = None THEN Some("AttributeError")
    ELSE None

\* A slip of the handler: only the errors of the service are caught.
summary_catches_OpenAIOnly(class) == class \in OpenAIErrors

\* line 247: except Exception
summary_catches(class) ==
    class \in OpenAIErrors \cup {"IndexError", "AttributeError"}

\* line 219: not self.openai_api_key
no_api_key(key) == key = None \/ key[1] = <<>>

\* lines 217-248: the string returned, or the exception that leaves the
\* call, and the request made to the service (None when none is made)
generate_ai_summary(key, bd, sd, response) ==
    IF no_api_key(key)
    THEN [ret |-> Summary("AI summary requires OpenAI API key", <<>>),
          request |-> None]
    ELSE LET e == summary_raises(response)
         IN  [ret |-> IF e = None
                      THEN Summary("{content}",
                                   <<Strip(response.choices[1].content[1])>>)
                      ELSE IF summary_catches(e[1])
                      THEN Summary("AI summary unavailable: {str(e)}", e)
                      ELSE [raised |-> e[1]],
              request |-> Some(prompt(bd, sd))]

\* A business of st.session_state.business_data (the sample of lines
\* 250-300 and the form of lines 524-546).
Business(name, industry, location, founded_year, estimated_revenue) ==
    ("name" :> name) @@ ("industry" :> industry) @@ ("location" :> location)
    @@ ("founded_year" :> founded_year)
    @@ ("estimated_revenue" :> estimated_revenue)

SessionBusinesses ==
    {Business(Blue_Ridge_HVAC_Services, HVAC_Contracting, Charlottesville_VA,
              1995, 3200000),
     Business(Memphis_Roofing, Roofing, Memphis_Tennessee, 2005, 3200000),
     Business(Richmond_Environmental_Solutions, Environmental_Remediation,
              Richmond_Virginia, 2015, 10000001)}

\* lines 324-328: the default selection of the region filter, and a
\* narrower one
RegionSelections == {<<Virginia, Colorado, Tennessee>>, <<Tennessee>>}

\* line 331: the slider, at its default and at its least
MinScores == {40, 0}

\* line 349
region_match(business, regions) ==
    \E i \in 1..Len(regions) :
        Contains(Lower(regions[i]), Lower(business_region(business["location"])))

\* lines 355-361: business['website_data'] = website_data
with_website_data(business) ==
    ("website_data" :>
        demo_website_data(IF Contains(enviro, Lower(business["name"]))
                          THEN 2019 ELSE 2021))
    @@ business

\* lines 373-380: the dict appended for a business
processed_entry(business, sd, summary) ==
    ("succession_score" :> sd.score)
    @@ ("succession_category" :> sd.category)
    @@ ("succession_factors" :> sd.factors)
    @@ ("ai_summary" :> summary)
    @@ ("priority" :> sd.priority)
    @@ business

InitPipeline ==
    /\ business_data = EmptyDict
    /\ current_year = FirstYear
    /\ calls = <<>>
    /\ NoScrape
    /\ NoPipeline

\* lines 318-321: the key typed in the sidebar, before the loop starts
SetOpenAIKey ==
    /\ pc = "loop"
    /\ processed_businesses = <<>>
    /\ openai_api_key = None
    /\ openai_api_key' = Some(sk_test)
    /\ UNCHANGED <<business_data, current_year, calls, url, requested, page,
                   scraped, pc, succession_data, ai_summary, service_calls,
                   service_prompt, processed_businesses>>

\* lines 346-368: one business through the region filter, the website
\* signals, the scoring and the score filter
ScoreBusiness ==
    /\ pc = "loop"
    /\ Len(processed_businesses) < MaxProcessed
    /\ \E business \in SessionBusinesses, regions \in RegionSelections,
          min_score \in MinScores :
        /\ region_match(business, regions)
        /\ LET sd == calculate_succession_score(with_website_data(business),
                                                current_year)
           IN  /\ business_data' = with_website_data(business)
               /\ succession_data' = Some(sd)
               /\ pc' = IF "raised" \in DOMAIN sd THEN "raised"
                        ELSE IF sd.score < 10 * min_score THEN "loop"
                        ELSE "summary"
    /\ UNCHANGED <<current_year, calls, url, requested, page, scraped,
                   openai_api_key, ai_summary, service_calls, service_prompt,
                   processed_businesses>>

\* lines 370-380: the summary of the business in hand and its entry
GenerateAiSummary ==
    /\ pc = "summary"
    /\ \E response \in Responses :
        LET call == generate_ai_summary(openai_api_key, business_data,
                                        succession_data[1], response)
        IN  /\ ai_summary' = Some(call.ret)
            /\ service_calls' = IF call.request = None THEN service_calls
                                ELSE service_calls + 1
            /\ service_prompt' = IF call.request = None THEN service_prompt
                                 ELSE call.request
            /\ IF "raised" \in DOMAIN call.ret
               THEN /\ pc' = "raised"
                    /\ UNCHANGED processed_businesses
               ELSE /\ pc' = "loop"
                    /\ processed_businesses' =
                           Append(processed_businesses,
                                  processed_entry(business_data,
                                                  succession_data[1], call.ret))
    /\ UNCHANGED <<business_data, current_year, calls, url, requested, page,
                   scraped, openai_api_key, succession_data>>

NextPipeline ==
    \/ SetOpenAIKey
    \/ ScoreBusiness
    \/ GenerateAiSummary

SpecPipeline == InitPipeline /\ [][NextPipeline]_vars

(***************************************************************************)
(* Vocabulary of the properties.                                           *)
(***************************************************************************)
Abs(x) == IF x < 0 THEN -x ELSE x

\* How many factors of fs were made from the template.
Count(fs, template) ==
    Cardinality({i \in 1..Len(fs) : fs[i].template = template})

\* The fixed point value of the rule a factor reports.
PointsOf(template) ==
    CASE template = F_Established -> 25
      [] template = F_Mature -> 15
      [] template = F_Inaccessible -> 20
      [] template = F_Copyright -> 15
      [] template = F_NoBlog -> 10
      [] template = F_NoCareers -> 10
      [] template = F_Industry -> 15
      [] template = F_Revenue -> 20
      [] template = F_Region -> 10

RECURSIVE SumPoints(_)
SumPoints(fs) ==
    IF fs = <<>> THEN 0 ELSE PointsOf(fs[1].template) + SumPoints(Tail(fs))

\* Two characters are one letter, in whatever case.
SameLetter(a, b) ==
    \/ a = b
    \/ \E i \in 1..Len(UpperCase) :
           \/ a = UpperCase[i] /\ b = LowerCase[i]
           \/ a = LowerCase[i] /\ b = UpperCase[i]

\* The string holds one of the nine keywords, in any letter case.
HasKeywordAnyCase(s) ==
    \E k \in 1..Len(high_succession_industries) :
        \E p \in 0..(Len(s) - Len(high_succession_industries[k])) :
            \A i \in 1..Len(high_succession_industries[k]) :
                SameLetter(s[p + i], high_succession_industries[k][i])

\* The region token of the location names a target geography.
RegionTokenMatches(location) ==
    \E i \in 1..Len(target_states) :
        Contains(target_states[i], Lower(business_region(location)))

Absent(k) == k \notin DOMAIN business_data

\* A call fails only on a field that is present and is not a str.
FailsOnlyOnPresentField ==
    (calls # <<>> /\ ~Returned) =>
        \/ ~Absent("industry") /\ business_data["industry"] = NaN
        \/ ~Absent("location") /\ business_data["location"] = NaN

\* An absent founded_year, estimated_revenue, industry or location leaves no
\* factor, and every point of raw_score belongs to a factor.
AbsentFieldsAddNothing ==
    /\ result.raw_score = SumPoints(result.factors)
    /\ Absent("founded_year") =>
           Count(result.factors, F_Established) + Count(result.factors, F_Mature) = 0
    /\ Absent("estimated_revenue") => Count(result.factors, F_Revenue) = 0
    /\ Absent("industry") => Count(result.factors, F_Industry) = 0
    /\ Absent("location") => Count(result.factors, F_Region) = 0
    /\ Absent("website_data") =>
           Count(result.factors, F_Copyright) + Count(result.factors, F_NoBlog)
               + Count(result.factors, F_NoCareers) = 0
\* What the rules other than the website rules add for the record.
OtherThanWebsite(bd, now) ==
    age_rule(bd, now).points + industry_rule(bd).points
        + revenue_rule(bd).points + location_rule(bd).points

\* What the rules other than the industry rule add for the record.
OtherThanIndustry(bd, now) ==
    age_rule(bd, now).points + website_rule(bd, now).points
        + revenue_rule(bd).points + location_rule(bd).points

\* The record and signals of the example scenario.
ExampleRecord ==
    [founded_year |-> 1995, estimated_revenue |-> 3200000,
     industry |-> HVAC_Contracting, location |-> Charlottesville_VA,
     website_data |-> [accessible |-> TRUE, latest_copyright |-> Some(2019),
                       has_blog |-> FALSE, has_careers |-> FALSE]]

ExampleScored ==
    /\ Returned
    /\ business_data = ExampleRecord
    /\ calls[Len(calls)].now = 2024

(***************************************************************************)
(* C1                                                                      *)
(***************************************************************************)
\* C1: for every raw_score a call produces, raw_score is in 0..115 and the
\* normalized score is min(100, raw_score/115*100) (here times 115); the
\* score returned is that value to one decimal place; it lies in [0, 100];
\* and it is monotonic non-decreasing in raw_score, over the results
\* returned and over every raw_score in 0..115.
C1_ScoreIsNormalizedRawScore ==
    Returned =>
        LET raw_score == result.raw_score
            score == result.score
            normalized == normalized_score(raw_score)
        IN  /\ raw_score \in 0..115
            /\ normalized = Min(100 * 115, raw_score * 100)
            /\ normalized \in 0..(100 * 115)
            /\ 2 * Abs(score * 115 - 10 * Min(100 * 115, raw_score * 100)) <= 115
            /\ score \in 0..1000
            /\ \A i \in 1..Len(calls) :
                   calls[i].ret.raw_score <= raw_score
                       => calls[i].ret.score <= score
            /\ \A raw \in 0..raw_score :
                   /\ normalized_score(raw) <= normalized
                   /\ Round1(normalized_score(raw), 115) <= score
            /\ \A raw \in raw_score..115 :
                   /\ normalized_score(raw) >= normalized
                   /\ Round1(normalized_score(raw), 115) >= score

\* Two calls on one record returned different raw scores, the later one the
\* larger, with the larger score.
C1_Witness ==
    /\ Len(calls) = 2
    /\ Returned
    /\ calls[1].ret.raw_score < calls[2].ret.raw_score
    /\ calls[1].ret.score < calls[2].ret.score

(***************************************************************************)
(* C2                                                                      *)
(***************************************************************************)
\* C2: the category of every result is decided by its score alone: High
\* exactly when score >= 70, Medium exactly when 40 <= score < 70, Low
\* exactly when score < 40; and the priority marker is red for High, yellow
\* for Medium, green for Low and for nothing else.
C2_CategoryFromScore ==
    Returned =>
        /\ result.category \in {"High", "Medium", "Low"}
        /\ result.category = "High" <=> result.score >= 700
        /\ result.category = "Medium" <=> (400 <= result.score /\ result.score < 700)
        /\ result.category = "Low" <=> result.score < 400
        /\ result.priority = RED_CIRCLE <=> result.category = "High"
        /\ result.priority = YELLOW_CIRCLE <=> result.category = "Medium"
        /\ result.priority = GREEN_CIRCLE <=> result.category = "Low"

\* A Medium result whose raw score is 70 or more.
C2_Witness ==
    /\ Returned
    /\ result.raw_score >= 70
    /\ result.category = "Medium"
    /\ result.priority = YELLOW_CIRCLE

C4_InaccessibleAddsTwenty ==
    (Returned /\ "accessible" \in DOMAIN website_data /\ ~website_data.accessible) =>
        /\ result.raw_score = OtherThanWebsite(business_data, calls[Len(calls)].now) + 20
        /\ Count(result.factors, F_Inaccessible) = 1
        /\ Count(result.factors, F_Copyright) = 0
        /\ Count(result.factors, F_NoBlog) = 0
        /\ Count(result.factors, F_NoCareers) = 0

\* An inaccessible site whose other signals would each fire their rule.
C4_Witness ==
    /\ Returned
    /\ "accessible" \in DOMAIN website_data
    /\ ~website_data.accessible
    /\ website_data.latest_copyright = Some(2019)
    /\ ~website_data.has_blog
    /\ ~website_data.has_careers

(***************************************************************************)
(* C5                                                                      *)
(***************************************************************************)
\* C5 (as stated): the call never fails on absent inputs, each absent input
\* (founded_year, estimated_revenue, industry, location, website signals)
\* adds no points and no factor, and a record with every field absent
\* yields raw_score = 0 and no factor.
C5_AbsentInputsScoreZero ==
    /\ FailsOnlyOnPresentField
    /\ Returned =>
           /\ AbsentFieldsAddNothing
           /\ Absent("website_data") => Count(result.factors, F_Inaccessible) = 0
           /\ business_data = EmptyDict =>
                  result.raw_score = 0 /\ result.factors = <<>>

\* C5 (amended): the call never fails on absent inputs; an absent
\* founded_year, estimated_revenue, industry or location adds no points and
\* no factor; absent website signals are scored as an inaccessible website
\* (+20 and the one inaccessible/outdated factor, no copyright, blog or
\* careers factor), so a record with every field absent yields
\* raw_score = 20 and that one factor.
C5_AbsentSignalsScoreTwenty ==
    /\ FailsOnlyOnPresentField
    /\ Returned =>
           /\ AbsentFieldsAddNothing
           /\ Absent("website_data") => Count(result.factors, F_Inaccessible) = 1
           /\ business_data = EmptyDict =>
                  /\ result.raw_score = 20
                  /\ result.factors = <<Factor(F_Inaccessible, 0, <<>>)>>

\* The record with every field absent has been scored.
C5_Witness ==
    /\ Returned
    /\ business_data = EmptyDict

(***************************************************************************)
(* C6                                                                      *)
(***************************************************************************)
\* Every rule adds the most it can: the upper age tier, the three rules of
\* an accessible website (35 points, against 20 for an inaccessible one),
\* industry, revenue and geography.
EveryRuleAtItsMost ==
    /\ Count(result.factors, F_Established) = 1
    /\ Count(result.factors, F_Copyright) = 1
    /\ Count(result.factors, F_NoBlog) = 1
    /\ Count(result.factors, F_NoCareers) = 1
    /\ Count(result.factors, F_Industry) = 1
    /\ Count(result.factors, F_Revenue) = 1
    /\ Count(result.factors, F_Region) = 1
    /\ RegionTokenMatches(Get(business_data, "location", <<>>))

\* C6: no input yields a raw_score above 115, and the input on which every
\* rule adds the most it can yields exactly 115 (a normalized score of 100).
C6_MaxRawScoreIs115 ==
    Returned =>
        /\ result.raw_score <= max_possible_score
        /\ EveryRuleAtItsMost =>
               result.raw_score = max_possible_score /\ result.score = 1000

(***************************************************************************)
(* C7                                                                      *)
(***************************************************************************)
\* C7 (as stated): in 2024 the example record scores raw_score = 110, a
\* normalized score of about 95.65, and category High.
C7_ExampleScores110 ==
    ExampleScored =>
        /\ result.raw_score = 110
        /\ result.score \in 956..957
        /\ result.category = "High"

\* C7 (amended): in 2024 the example record scores raw_score = 105
\* (25 + 15 + 10 + 10 + 15 + 20 + 10), a normalized score of 91.3, and
\* category High.
C7_ExampleScores105 ==
    ExampleScored =>
        /\ result.raw_score = 105
        /\ result.score = 913
        /\ result.category = "High"
        /\ Len(result.factors) = 7

\* The example record has been scored in 2024.
C7_Witness ==
    /\ ExampleScored
    /\ current_year = 2024
    /\ Len(calls) = 1

(***************************************************************************)
(* C8                                                                      *)
(***************************************************************************)
\* C8: the geography rule adds its factor exactly when the region token of
\* location (the text after the last comma) names a target geography; the
\* city before the last comma never makes it fire.
C8_RegionTokenDecides ==
    Returned =>
        (Count(result.factors, F_Region) = 1
            <=> RegionTokenMatches(Get(business_data, "location", <<>>)))

(***************************************************************************)
(* C9                                                                      *)
(***************************************************************************)
\* C9: scrape_website_data never raises; on a failure of the fetch or of the
\* parse it returns accessible = false, an error description and every
\* other field at its empty default; and only a result with
\* accessible = false has an error field.
C9_ScrapeIsTotal ==
    scraped # None =>
        /\ "raised" \notin DOMAIN scraped[1]
        /\ (url[1] = NaN \/ page[1].raises # None) =>
               /\ scraped[1].accessible = FALSE
               /\ "error" \in DOMAIN scraped[1]
               /\ scraped[1].title = <<>>
               /\ scraped[1].copyright_years = <<>>
               /\ scraped[1].latest_copyright = None
               /\ scraped[1].has_blog = FALSE
               /\ scraped[1].has_careers = FALSE
               /\ scraped[1].last_updated = None
               /\ scraped[1].text_length = 0
        /\ "error" \in DOMAIN scraped[1] => scraped[1].accessible = FALSE
        /\ (url[1] # NaN /\ page[1].raises = None) =>
               scraped[1].accessible = TRUE /\ "error" \notin DOMAIN scraped[1]

\* A fetch has timed out on a page that has content to extract.
C9_Witness ==
    /\ scraped # None
    /\ url[1] # NaN
    /\ page[1].raises = Some("requests.Timeout")
    /\ scraped[1].accessible = FALSE

(***************************************************************************)
(* C10                                                                     *)
(***************************************************************************)
\* C10: an industry that holds one or more of the nine keywords, in any
\* letter case, adds 15 points and one factor exactly once; an industry
\* that holds none of them adds nothing.
C10_IndustryMatchedOnce ==
    Returned =>
        LET industry == Get(business_data, "industry", <<>>)
            others == OtherThanIndustry(business_data, calls[Len(calls)].now)
        IN  IF HasKeywordAnyCase(industry)
            THEN /\ Count(result.factors, F_Industry) = 1
                 /\ result.raw_score = others + 15
            ELSE /\ Count(result.factors, F_Industry) = 0
                 /\ result.raw_score = others

\* An industry in upper and mixed case that holds two of the keywords.
C10_Witness ==
    /\ Returned
    /\ ~Absent("industry")
    /\ business_data["industry"] = HVAC_and_Plumbing
    /\ Count(result.factors, F_Industry) = 1

(***************************************************************************)
(* C12                                                                     *)
(***************************************************************************)
\* The place of a factor's rule in the evaluation order.
RankOf(template) ==
    CASE template = F_Established -> 1
      [] template = F_Mature -> 1
      [] template = F_Inaccessible -> 2
      [] template = F_Copyright -> 3
      [] template = F_NoBlog -> 4
      [] template = F_NoCareers -> 5
      [] template = F_Industry -> 6
      [] template = F_Revenue -> 7
      [] template = F_Region -> 8

\* The rule added points in the call that returned result.
Added(rule) == rule.points > 0

\* C12: factors holds one string for each rule that added points and none
\* for a rule that did not, in evaluation order (age, inaccessible or else
\* copyright, blog, careers, then industry, revenue, geography); raw_score
\* is the sum of the point values of those rules; and raw_score = 0 exactly
\* when factors is empty.
C12_FactorsAreTheRulesThatFired ==
    Returned =>
        LET now == calls[Len(calls)].now
            fs == result.factors
        IN  /\ \A i \in 1..Len(fs) : \A j \in 1..Len(fs) :
                   i < j => RankOf(fs[i].template) < RankOf(fs[j].template)
            /\ Count(fs, F_Established) + Count(fs, F_Mature)
                   = IF Added(age_rule(business_data, now)) THEN 1 ELSE 0
            /\ Count(fs, F_Inaccessible)
                   = IF ~Truth(website_data, "accessible") THEN 1 ELSE 0
            /\ Count(fs, F_Inaccessible) = 1 =>
                   Count(fs, F_Copyright) + Count(fs, F_NoBlog)
                       + Count(fs, F_NoCareers) = 0
            /\ Count(fs, F_Inaccessible) = 0 =>
                   /\ Count(fs, F_Copyright)
                          = IF Added(copyright_rule(website_data, now)) THEN 1 ELSE 0
                   /\ Count(fs, F_NoBlog)
                          = IF Added(blog_rule(website_data)) THEN 1 ELSE 0
                   /\ Count(fs, F_NoCareers)
                          = IF Added(careers_rule(website_data)) THEN 1 ELSE 0
            /\ Count(fs, F_Industry)
                   = IF Added(industry_rule(business_data)) THEN 1 ELSE 0
            /\ Count(fs, F_Revenue)
                   = IF Added(revenue_rule(business_data)) THEN 1 ELSE 0
            /\ Count(fs, F_Region)
                   = IF Added(location_rule(business_data)) THEN 1 ELSE 0
            /\ result.raw_score = SumPoints(fs)
            /\ result.raw_score = 0 <=> fs = <<>>

\* A result with factors of the age, website, revenue and geography rules
\* and none of the industry rule.
C12_Witness ==
    /\ Returned
    /\ Len(result.factors) = 5
    /\ Count(result.factors, F_Mature) = 1
    /\ Count(result.factors, F_NoBlog) = 1
    /\ Count(result.factors, F_NoCareers) = 1
    /\ Count(result.factors, F_Industry) = 0
    /\ Count(result.factors, F_Revenue) = 1
    /\ Count(result.factors, F_Region) = 1
    /\ result.raw_score = 65

\* The summary step of the business in hand has run and left main()'s loop
\* with an entry for it.
Summarized ==
    /\ pc = "loop"
    /\ ai_summary # None
    /\ processed_businesses # <<>>
    /\ processed_businesses[Len(processed_businesses)]["name"]
           = business_data["name"]

SummaryTemplates ==
    {"AI summary requires OpenAI API key", "{content}",
     "AI summary unavailable: {str(e)}"}

\* C11: a failure of the text summary never blocks or invalidates scoring.
\* generate_ai_summary never raises and always returns a string: the key
\* placeholder, with no request made to the service, when no key is set, and
\* otherwise the service's text or the unavailable placeholder.  Every entry
\* main() appends carries the score, category, priority and factors that
\* scoring gave for that business, whatever the summary step returned, and
\* succession_data is still what scoring returned.
C11_SummaryNeverInvalidatesScoring ==
    /\ ai_summary # None =>
        /\ "raised" \notin DOMAIN ai_summary[1]
        /\ ai_summary[1].template \in SummaryTemplates
        /\ no_api_key(openai_api_key) <=>
               ai_summary[1].template = "AI summary requires OpenAI API key"
    /\ no_api_key(openai_api_key) => service_calls = 0 /\ service_prompt = None
    /\ pc = "summary" =>
           \A response \in Responses :
               LET call == generate_ai_summary(openai_api_key, business_data,
                                               succession_data[1], response)
               IN  /\ "raised" \notin DOMAIN call.ret
                   /\ call.ret.template = "AI summary unavailable: {str(e)}"
                          <=> summary_raises(response) # None
                                 /\ ~no_api_key(openai_api_key)
    /\ succession_data # None /\ pc # "raised" =>
           succession_data[1]
               = calculate_succession_score(business_data, current_year)
    /\ \A i \in 1..Len(processed_businesses) :
           LET entry == processed_businesses[i]
               scored == calculate_succession_score(entry, current_year)
           IN  /\ entry["succession_score"] = scored.score
               /\ entry["succession_category"] = scored.category
               /\ entry["succession_factors"] = scored.factors
               /\ entry["priority"] = scored.priority
               /\ entry["ai_summary"].template \in SummaryTemplates
    /\ Summarized =>
           LET entry == processed_businesses[Len(processed_businesses)]
           IN  /\ entry["succession_score"] = succession_data[1].score
               /\ entry["succession_category"] = succession_data[1].category
               /\ entry["succession_factors"] = succession_data[1].factors
               /\ entry["ai_summary"] = ai_summary[1]

\* A key is set, the service failed on the second business, and both
\* entries are in the list with their scores: the first with the service's
\* text, the second with the unavailable placeholder.
C11_Witness ==
    /\ Summarized
    /\ ~no_api_key(openai_api_key)
    /\ service_calls = 2
    /\ Len(processed_businesses) = 2
    /\ processed_businesses[1]["ai_summary"].template = "{content}"
    /\ processed_businesses[2]["ai_summary"]
           = Summary("AI summary unavailable: {str(e)}",
                     Some("openai.RateLimitError"))
    /\ processed_businesses[2]["name"] = Memphis_Roofing
    /\ processed_businesses[2]["succession_score"] = 826
    /\ Len(processed_businesses[2]["succession_factors"]) = 7

====
